---- MODULE Spec2Model ----
(***************************************************************************)
(* Run activation pipeline (StartRunService) of the webapp.                *)
(*                                                                         *)
(* StartRunService.call(id) reads a JobRun, resolves the integration       *)
(* requirements of its job version (createRunConnections) and then either  *)
(* parks the run (#handleMissingConnections) or queues it (#startRun).     *)
(* Every await of the service is one step of a call, so calls issued by    *)
(* parallel workers interleave between their database statements.          *)
(*                                                                         *)
(* Database semantics used by the model:                                   *)
(*  - statements issued through `tx` inside $transaction become visible at *)
(*    commit and are discarded on rollback;                                *)
(*  - statements issued through this.#prismaClient are committed at once   *)
(*    (a different connection, outside the transaction);                   *)
(*  - pg_advisory_xact_lock is exclusive per key and released at the end   *)
(*    of the transaction;                                                  *)
(*  - a nested write (jobRun.update with connectOrCreate and include) is   *)
(*    one transaction: connectOrCreate first looks the row up by its       *)
(*    unique key and then connects or creates; a create that meets a row   *)
(*    committed after the lookup violates the unique index and the whole   *)
(*    update is rolled back and throws.                                    *)
(***************************************************************************)
EXTENDS Integers, Sequences, FiniteSets, TLC

\* ------------------------------------------------------------------ bounds
\* Number of activate calls issued by the workers.
MaxCalls == 2

Calls == 1..MaxCalls

\* Largest Retry-After value, in seconds, of a throttling response.
MaxRetryAfter == 3

\* Latest reading of the clock when onError is called.
MaxNow == 4

\* ------------------------------------------------------ static definitions
NULL == "NULL"

Jobs == {"J1", "J2"}

\* Values of the 8-hex-digit digest prefix that the jobs of the model can map to.
\* Distinct job ids can have the same prefix: "job_1230" and "job_103711" both
\* give da03c1e5.
LockIds == {"lockA", "lockB"}

\* Integration.authSource of the registered integrations.
authSource == [iH |-> "HOSTED", iL |-> "LOCAL", iR |-> "RESOLVER"]

\* JobVersion.integrations: the ordered requirements (key, integration).
versionIntegrations ==
  [ vH   |-> << [key |-> "kH", integration |-> "iH"] >>,
    vMix |-> << [key |-> "kH", integration |-> "iH"],
                [key |-> "kL", integration |-> "iL"],
                [key |-> "kR", integration |-> "iR"] >>,
    vLR  |-> << [key |-> "kL", integration |-> "iL"],
                [key |-> "kR", integration |-> "iR"] >>,
    v0   |-> << >> ]

\* The JobRun rows created by the scheduler (findRun's result, status aside).
RunDef ==
  [ r1 |-> [jobId |-> "J1", version |-> "vH",   externalAccountId |-> NULL,    status |-> "PENDING"],
    r2 |-> [jobId |-> "J1", version |-> "vMix", externalAccountId |-> NULL,    status |-> "PENDING"],
    r3 |-> [jobId |-> "J1", version |-> "vLR",  externalAccountId |-> NULL,    status |-> "PENDING"],
    r4 |-> [jobId |-> "J2", version |-> "vH",   externalAccountId |-> "acct1", status |-> "PENDING"],
    r5 |-> [jobId |-> "J2", version |-> "v0",   externalAccountId |-> NULL,    status |-> "PENDING"],
    r6 |-> [jobId |-> "J2", version |-> "vLR",  externalAccountId |-> NULL,    status |-> "CANCELED"] ]

Runs == DOMAIN RunDef

\* An id for which no JobRun row exists.
AbsentRun == "r0"

RunIds == Runs \cup {AbsentRun}

\* IntegrationConnection rows that other parts of the platform may create.
ConnectionUniverse ==
  { [id |-> "cDev",  integrationId |-> "iH", connectionType |-> "DEVELOPER", externalAccountId |-> NULL],
    [id |-> "cExt1", integrationId |-> "iH", connectionType |-> "EXTERNAL",  externalAccountId |-> "acct1"],
    [id |-> "cExt2", integrationId |-> "iH", connectionType |-> "EXTERNAL",  externalAccountId |-> "acct2"] }

VARIABLES
  jobRun,                  \* JobRun rows: status, number, queuedAt
  runConnections,          \* RunConnection rows of each run, in creation order
  jobCounter,              \* JobCounter.lastNumber per job, 0 = no row
  integrationConnection,   \* committed IntegrationConnection rows
  missingConnection,       \* committed MissingConnection rows
  runMissing,              \* JobRun <-> MissingConnection links
  missingConnectionCreated,\* workerQueue jobs "missingConnectionCreated" per MissingConnection id
  resumeRun,               \* committed ResumeRunService.enqueue jobs per run
  calls,                   \* the activate calls and their position
  now,                     \* logical clock behind new Date()
  lockIdOf,                \* the digest prefix of each job id
  overlapped,              \* history: runs on which two activate calls were in flight together
  error,                   \* the error handed to the Shopify onError callback
  result                   \* what onError returned for it

vars == << jobRun, runConnections, jobCounter, integrationConnection, missingConnection,
           runMissing, missingConnectionCreated, resumeRun, calls, now, lockIdOf,
           overlapped, error, result >>

\* History of the calls and the state of the Shopify error callback.
aux == << overlapped, error, result >>

\* Everything persisted except the connections owned by other subsystems.
store == << jobRun, runConnections, jobCounter, missingConnection,
            runMissing, missingConnectionCreated, resumeRun >>

\* --------------------------------------------------------- pure functions
EmptyAcc == [k \in {} |-> NULL]

IdleCall == [pc |-> "idle", id |-> NULL, seen |-> NULL, acc |-> EmptyAcc, i |-> 0, found |-> {},
             lastNumber |-> 0, enqueued |-> FALSE, outcome |-> "none"]

RunsOfJob(j) == {r \in Runs : RunDef[r].jobId = j}

\* #runIsStartable accepting a run that is already queued.
runIsStartableMutant(status) == status \in {"PENDING", "WAITING_ON_CONNECTIONS", "QUEUED"}

\* #runIsStartable
runIsStartable(status) == status \in {"PENDING", "WAITING_ON_CONNECTIONS"}

\* jobIdToLockId
jobIdToLockId(jobId) == lockIdOf[jobId]

\* findFirst that always filters on the EXTERNAL type and the run's account.
findFirstConnectionExternalOnly(conns, integrationId, externalAccountId) ==
  {c \in conns : /\ c.integrationId = integrationId
                  /\ c.connectionType = "EXTERNAL"
                  /\ c.externalAccountId = externalAccountId}

\* findFirst with a fallback chain: EXTERNAL for the account, else DEVELOPER.
findFirstConnectionFallback(conns, integrationId, externalAccountId) ==
  LET ext == {c \in conns : /\ c.integrationId = integrationId
                            /\ c.connectionType = "EXTERNAL"
                            /\ c.externalAccountId = externalAccountId}
      dev == {c \in conns : /\ c.integrationId = integrationId
                            /\ c.connectionType = "DEVELOPER"}
  IN  IF externalAccountId # NULL /\ ext # {} THEN ext ELSE dev

\* integrationConnection.findFirst of createRunConnections
findFirstConnection(conns, integrationId, externalAccountId) ==
  IF externalAccountId # NULL
  THEN {c \in conns : /\ c.integrationId = integrationId
                      /\ c.connectionType = "EXTERNAL"
                      /\ c.externalAccountId = externalAccountId}
  ELSE {c \in conns : /\ c.integrationId = integrationId
                      /\ c.connectionType = "DEVELOPER"}

\* The reduce without its RESOLVER branch: such a requirement is looked up as HOSTED.
resolveIntegrationMutant(run, jobIntegration, conns) ==
  LET integ == jobIntegration.integration
      matching == findFirstConnection(conns, integ, run.externalAccountId)
  IN  IF authSource[integ] = "LOCAL"
      THEN [result |-> "resolvedLocal", integration |-> integ, connection |-> NULL,
            connectionType |-> NULL, externalAccountId |-> NULL]
      ELSE IF matching # {}
      THEN [result |-> "resolvedHosted", integration |-> integ,
            connection |-> (CHOOSE c \in matching : TRUE).id,
            connectionType |-> NULL, externalAccountId |-> NULL]
      ELSE [result |-> "missing", integration |-> integ, connection |-> NULL,
            connectionType |-> (IF run.externalAccountId # NULL THEN "EXTERNAL" ELSE "DEVELOPER"),
            externalAccountId |-> run.externalAccountId]

\* One iteration of the reduce in createRunConnections.
resolveIntegration(run, jobIntegration, conns) ==
  LET integ == jobIntegration.integration
      matching == findFirstConnection(conns, integ, run.externalAccountId)
  IN  IF authSource[integ] = "LOCAL"
      THEN [result |-> "resolvedLocal", integration |-> integ, connection |-> NULL,
            connectionType |-> NULL, externalAccountId |-> NULL]
      ELSE IF authSource[integ] = "RESOLVER"
      THEN [result |-> "resolvedResolver", integration |-> integ, connection |-> NULL,
            connectionType |-> NULL, externalAccountId |-> NULL]
      ELSE IF matching # {}
      THEN [result |-> "resolvedHosted", integration |-> integ,
            connection |-> (CHOOSE c \in matching : TRUE).id,
            connectionType |-> NULL, externalAccountId |-> NULL]
      ELSE [result |-> "missing", integration |-> integ, connection |-> NULL,
            connectionType |-> (IF run.externalAccountId # NULL THEN "EXTERNAL" ELSE "DEVELOPER"),
            externalAccountId |-> run.externalAccountId]

\* hasMissingConnections
hasMissingConnections(acc) == \E k \in DOMAIN acc : acc[k].result = "missing"

\* The unique key (integrationId, connectionType, accountIdentifier) of connectOrCreate.
missingKey(rc) ==
  [integrationId |-> rc.integration, connectionType |-> rc.connectionType,
   accountIdentifier |-> (IF rc.externalAccountId # NULL THEN rc.externalAccountId ELSE "DEVELOPER")]

\* The missingConnections list of #handleMissingConnections.
missingOf(acc) == {acc[k] : k \in {x \in DOMAIN acc : acc[x].result = "missing"}}

missingKeys(acc) == {missingKey(rc) : rc \in missingOf(acc)}

rowKey(mc) ==
  [integrationId |-> mc.integrationId, connectionType |-> mc.connectionType,
   accountIdentifier |-> mc.accountIdentifier]

\* The map of #startRun tagging every binding without connection as LOCAL.
bindingOfMutant(key, rc) ==
  IF rc.result = "resolvedHosted"
  THEN [key |-> key, connectionId |-> rc.connection, integrationId |-> rc.integration,
        authSource |-> "HOSTED"]
  ELSE [key |-> key, connectionId |-> NULL, integrationId |-> rc.integration,
        authSource |-> "LOCAL"]

\* The RunConnection rows #startRun creates, in the order of the version's requirements.
bindingOf(key, rc) ==
  IF rc.result = "resolvedHosted"
  THEN [key |-> key, connectionId |-> rc.connection, integrationId |-> rc.integration,
        authSource |-> "HOSTED"]
  ELSE [key |-> key, connectionId |-> NULL, integrationId |-> rc.integration,
        authSource |-> (IF rc.result = "resolvedLocal" THEN "LOCAL" ELSE "RESOLVER")]

createRunConnectionsData(version, acc) ==
  LET reqs == versionIntegrations[version]
      kept == SelectSeq(reqs, LAMBDA q : acc[q.key].result # "missing")
  IN  [n \in 1..Len(kept) |-> bindingOf(kept[n].key, acc[kept[n].key])]

\* Where call() goes after the i-1 first requirements are classified.
afterResolve(version, acc, i) ==
  IF i <= Len(versionIntegrations[version]) THEN "createRunConnections"
  ELSE IF hasMissingConnections(acc) THEN "handleMissingConnections"
  ELSE "startRun"

\* ------------------------------------------------------- Shopify onError
\* JavaScript values of error.response.retryAfter (number | undefined).
Undefined == [kind |-> "undefined", n |-> 0]

NaN == [kind |-> "NaN", n |-> 0]

Num(n) == [kind |-> "number", n |-> n]

RetryAfterValues == {Undefined, NaN} \cup {Num(n) : n \in -1..MaxRetryAfter}

\* The classes of the values onError can receive, each with the class it extends.
extends ==
  [ Error               |-> NULL,
    ShopifyError        |-> "Error",
    HttpResponseError   |-> "ShopifyError",
    HttpRetriableError  |-> "HttpResponseError",
    HttpInternalError   |-> "HttpRetriableError",
    HttpThrottlingError |-> "HttpRetriableError" ]

ErrorClasses == DOMAIN extends

\* error instanceof cls: cls is on the prototype chain of the error's class.
RECURSIVE instanceof(_, _)
instanceof(class, cls) ==
  IF class = NULL THEN FALSE
  ELSE IF class = cls THEN TRUE
  ELSE instanceof(extends[class], cls)

\* Only a throttling response carries retryAfter.
Errors ==
  {[class |-> cl, retryAfter |-> Undefined] : cl \in ErrorClasses \ {"HttpThrottlingError"}}
  \cup {[class |-> "HttpThrottlingError", retryAfter |-> v] : v \in RetryAfterValues}

\* if (retryAfter): undefined, 0 and NaN are falsy.
truthy(v) == v.kind = "number" /\ v.n # 0

\* Number(retryAfter) * 1000.
SecondMs == 1000

retryAfterMs(v) == IF v.kind = "number" THEN Num(v.n * SecondMs) ELSE NaN

\* return; (no directive)
ReturnUndefined ==
  [called |-> TRUE, skipRetrying |-> FALSE, hasRetryAt |-> FALSE, retryAt |-> 0,
   hasError |-> FALSE]

\* onError with the test retryAfter !== undefined in place of truthiness.
onErrorMutant(err, dateNow) ==
  IF ~instanceof(err.class, "ShopifyError") THEN ReturnUndefined
  ELSE IF ~instanceof(err.class, "HttpRetriableError")
  THEN [ReturnUndefined EXCEPT !.skipRetrying = TRUE]
  ELSE IF ~instanceof(err.class, "HttpThrottlingError") THEN ReturnUndefined
  ELSE IF err.retryAfter # Undefined
       THEN IF retryAfterMs(err.retryAfter) = NaN THEN ReturnUndefined
            ELSE [ReturnUndefined EXCEPT !.hasRetryAt = TRUE,
                                         !.retryAt = dateNow + retryAfterMs(err.retryAfter).n,
                                         !.hasError = TRUE]
       ELSE ReturnUndefined

\* onError(error), with Date.now() as second argument.
onError(err, dateNow) ==
  IF ~instanceof(err.class, "ShopifyError") THEN ReturnUndefined
  ELSE IF ~instanceof(err.class, "HttpRetriableError")
  THEN [ReturnUndefined EXCEPT !.skipRetrying = TRUE]
  ELSE IF ~instanceof(err.class, "HttpThrottlingError") THEN ReturnUndefined
  ELSE IF truthy(err.retryAfter)
       THEN IF retryAfterMs(err.retryAfter) = NaN THEN ReturnUndefined
            ELSE [ReturnUndefined EXCEPT !.hasRetryAt = TRUE,
                                         !.retryAt = dateNow + retryAfterMs(err.retryAfter).n,
                                         !.hasError = TRUE]
       ELSE ReturnUndefined

\* The callback has no error to handle while the pipeline runs.
NoError == [class |-> "none", retryAfter |-> Undefined]

NotCalled == [ReturnUndefined EXCEPT !.called = FALSE]

\* Calls on run id that are between findRun and their return.
InFlight(id) == {d \in Calls : calls[d].pc \notin {"idle", "done"} /\ calls[d].id = id}

\* ------------------------------------------------------------------- Init
InitStore ==
  /\ jobRun = [r \in Runs |-> [status |-> RunDef[r].status, number |-> 0, queuedAt |-> 0]]
  /\ runConnections = [r \in Runs |-> << >>]
  /\ jobCounter = [j \in Jobs |-> 0]
  /\ missingConnection = {}
  /\ runMissing = {}
  /\ missingConnectionCreated = [m \in {} |-> 0]
  /\ resumeRun = [r \in Runs |-> 0]
  /\ calls = [c \in Calls |-> IdleCall]
  \* any digest, up to the renaming of the lock ids: the two jobs collide or not
  /\ lockIdOf \in {f \in [Jobs -> LockIds] : f["J1"] = "lockA"}
  /\ overlapped = {}

\* The clock at the first call; no task has thrown.
InitClock ==
  /\ now = 1
  /\ error = NoError
  /\ result = NotCalled

Init ==
  /\ InitStore
  /\ InitClock
  /\ integrationConnection = {}

\* ---------------------------------------------------------------- actions
Finish(c, outcome) ==
  [IdleCall EXCEPT !.pc = "done", !.id = calls[c].id, !.outcome = outcome]

\* StartRunService.call: findRun and the #runIsStartable guard.
Call(c, id) ==
  /\ calls[c].pc = "idle"
  /\ \A d \in Calls : d < c => calls[d].pc # "idle"
  /\ IF id \notin Runs \/ ~runIsStartable(jobRun[id].status)
     THEN calls' = [calls EXCEPT ![c] = [IdleCall EXCEPT !.pc = "done", !.id = id,
                                                         !.outcome = "noop"]]
     ELSE calls' = [calls EXCEPT ![c] =
                      [IdleCall EXCEPT !.id = id, !.seen = jobRun[id].status, !.i = 1,
                                       !.pc = afterResolve(RunDef[id].version, EmptyAcc, 1)]]
  /\ overlapped' = IF id \in Runs /\ runIsStartable(jobRun[id].status) /\ InFlight(id) # {}
                   THEN overlapped \cup {id} ELSE overlapped
  /\ UNCHANGED << store, integrationConnection, now, lockIdOf, error, result >>

\* createRunConnections: one requirement of the version is classified.
CreateRunConnections(c) ==
  LET call == calls[c]
      run  == RunDef[call.id]
      ji   == versionIntegrations[run.version][call.i]
      acc2 == (ji.key :> resolveIntegration(run, ji, integrationConnection)) @@ call.acc
  IN  /\ call.pc = "createRunConnections"
      /\ calls' = [calls EXCEPT ![c].acc = acc2, ![c].i = call.i + 1,
                                ![c].pc = afterResolve(run.version, acc2, call.i + 1)]
      /\ UNCHANGED << store, integrationConnection, now, lockIdOf, aux >>

\* Another subsystem creates an IntegrationConnection.
CreateConnection(conn) ==
  /\ conn \in ConnectionUniverse \ integrationConnection
  /\ integrationConnection' = integrationConnection \cup {conn}
  /\ UNCHANGED << store, calls, now, lockIdOf, aux >>

\* ------------------------------------------------ #handleMissingConnections
\* The MissingConnection row with the unique key k, if it is committed.
rowsWithKey(rows, k) == {mc \in rows : rowKey(mc) = k}

\* A connectOrCreate that no unique index guards.
uniqueViolationMutant(rows, k) == FALSE

\* The unique index integrationId_connectionType_accountIdentifier rejects a second row.
uniqueViolation(rows, k) == rowsWithKey(rows, k) # {}

\* The row connectOrCreate inserts for a missing requirement.
createMissing(id, rc) ==
  [id |-> id, integrationId |-> rc.integration, connectionType |-> rc.connectionType,
   accountIdentifier |-> (IF rc.externalAccountId # NULL THEN rc.externalAccountId ELSE "DEVELOPER"),
   externalAccountId |-> rc.externalAccountId,
   resolved |-> FALSE]

\* _count.runs of a MissingConnection.
countRuns(links, mcId) == Cardinality({l \in links : l[2] = mcId})

\* The test of the notification loop.
shouldNotify(count) == count = 1

\* connectOrCreate, first half: the lookups by unique key.
HandleMissingFind(c) ==
  LET call == calls[c]
  IN  /\ call.pc = "handleMissingConnections"
      /\ calls' = [calls EXCEPT ![c].pc = "connectOrCreate",
                                ![c].found = {k \in missingKeys(call.acc) :
                                                rowsWithKey(missingConnection, k) # {}}]
      /\ UNCHANGED << store, integrationConnection, now, lockIdOf, aux >>

\* jobRun.update of #handleMissingConnections commits, then the notification loop runs.
HandleMissingUpdate(c) ==
  LET call    == calls[c]
      keys    == missingKeys(call.acc)
      newKeys == keys \ call.found
      base    == Cardinality(missingConnection)
      idOf    == CHOOSE f \in [newKeys -> (base + 1)..(base + Cardinality(newKeys))] :
                   \A a, b \in newKeys : a # b => f[a] # f[b]
      created == {createMissing(idOf[k], CHOOSE rc \in missingOf(call.acc) : missingKey(rc) = k) :
                    k \in newKeys}
      rows2   == missingConnection \cup created
      mine    == {mc.id : mc \in {m \in rows2 : rowKey(m) \in keys}}
      links2  == runMissing \cup {<< call.id, m >> : m \in mine}
      ofRun   == {l[2] : l \in {x \in links2 : x[1] = call.id}}
      queue0  == [m \in {mc.id : mc \in rows2} |->
                    IF m \in DOMAIN missingConnectionCreated
                    THEN missingConnectionCreated[m] ELSE 0]
  IN  /\ call.pc = "connectOrCreate"
      /\ \A k \in newKeys : ~uniqueViolation(missingConnection, k)
      /\ jobRun' = [jobRun EXCEPT ![call.id].status = "WAITING_ON_CONNECTIONS"]
      /\ missingConnection' = rows2
      /\ runMissing' = links2
      /\ missingConnectionCreated' =
           [m \in DOMAIN queue0 |->
              IF m \in ofRun /\ shouldNotify(countRuns(links2, m))
              THEN queue0[m] + 1 ELSE queue0[m]]
      /\ calls' = [calls EXCEPT ![c] = Finish(c, "waiting")]
      /\ UNCHANGED << runConnections, jobCounter, resumeRun, integrationConnection,
                      now, lockIdOf, aux >>

\* connectOrCreate creates a row that another update committed after the lookup:
\* the nested write is rolled back and the call throws.
HandleMissingConflict(c) ==
  LET call == calls[c]
  IN  /\ call.pc = "connectOrCreate"
      /\ \E k \in missingKeys(call.acc) \ call.found : uniqueViolation(missingConnection, k)
      /\ calls' = [calls EXCEPT ![c] = Finish(c, "conflict")]
      /\ UNCHANGED << store, integrationConnection, now, lockIdOf, aux >>

\* -------------------------------------------------------------- #startRun
TxPcs == {"upsert", "update", "enqueue", "commit"}

\* A lock that excludes nobody.
lockFreeMutant(lockId) == TRUE

\* A lock that is not released when the transaction rolls back.
lockFreeLeak(lockId) ==
  \A d \in Calls :
    ~( /\ calls[d].pc \in TxPcs \/ calls[d].outcome = "rollback"
       /\ jobIdToLockId(RunDef[calls[d].id].jobId) = lockId )

\* pg_advisory_xact_lock: no open transaction holds the key.
lockFree(lockId) ==
  \A d \in Calls : ~(calls[d].pc \in TxPcs /\ jobIdToLockId(RunDef[calls[d].id].jobId) = lockId)

\* jobCounter.upsert: create at 1 or increment.
upsertCounter(lastNumber) == IF lastNumber = 0 THEN 1 ELSE lastNumber + 1

TxLock(c) ==
  LET call == calls[c]
  IN  /\ call.pc = "startRun"
      /\ lockFree(jobIdToLockId(RunDef[call.id].jobId))
      /\ calls' = [calls EXCEPT ![c].pc = "upsert"]
      /\ UNCHANGED << store, integrationConnection, now, lockIdOf, aux >>

TxUpsert(c) ==
  LET call == calls[c]
  IN  /\ call.pc = "upsert"
      /\ calls' = [calls EXCEPT ![c].pc = "update",
                     ![c].lastNumber = upsertCounter(jobCounter[RunDef[call.id].jobId])]
      /\ UNCHANGED << store, integrationConnection, now, lockIdOf, aux >>

\* A jobRun.update of #startRun that also disconnects the run from its missingConnections.
TxUpdateMutant(c) ==
  LET call == calls[c]
  IN  /\ call.pc = "update"
      /\ jobRun' = [jobRun EXCEPT ![call.id] =
                      [status |-> "QUEUED", number |-> call.lastNumber, queuedAt |-> now]]
      /\ runConnections' = [runConnections EXCEPT ![call.id] =
                              @ \o createRunConnectionsData(RunDef[call.id].version, call.acc)]
      /\ now' = now + 1
      /\ calls' = [calls EXCEPT ![c].pc = "enqueue"]
      /\ runMissing' = {l \in runMissing : l[1] # call.id}
      /\ UNCHANGED << jobCounter, missingConnection, missingConnectionCreated,
                      resumeRun, integrationConnection, lockIdOf, aux >>

\* this.#prismaClient.jobRun.update: committed at once, outside the transaction.
TxUpdate(c) ==
  LET call == calls[c]
  IN  /\ call.pc = "update"
      /\ jobRun' = [jobRun EXCEPT ![call.id] =
                      [status |-> "QUEUED", number |-> call.lastNumber, queuedAt |-> now]]
      /\ runConnections' = [runConnections EXCEPT ![call.id] =
                              @ \o createRunConnectionsData(RunDef[call.id].version, call.acc)]
      /\ now' = now + 1
      /\ calls' = [calls EXCEPT ![c].pc = "enqueue"]
      /\ UNCHANGED << jobCounter, missingConnection, runMissing, missingConnectionCreated,
                      resumeRun, integrationConnection, lockIdOf, aux >>

\* ResumeRunService.enqueue(updatedRun, tx): written inside the transaction.
TxEnqueue(c) ==
  /\ calls[c].pc = "enqueue"
  /\ calls' = [calls EXCEPT ![c].pc = "commit", ![c].enqueued = TRUE]
  /\ UNCHANGED << store, integrationConnection, now, lockIdOf, aux >>

\* The transaction commits: the counter and the dispatch job become visible.
TxCommit(c) ==
  LET call == calls[c]
  IN  /\ call.pc = "commit"
      /\ jobCounter' = [jobCounter EXCEPT ![RunDef[call.id].jobId] = call.lastNumber]
      /\ resumeRun' = [resumeRun EXCEPT ![call.id] = @ + (IF call.enqueued THEN 1 ELSE 0)]
      /\ calls' = [calls EXCEPT ![c] = Finish(c, "queued")]
      /\ UNCHANGED << jobRun, runConnections, missingConnection, runMissing,
                      missingConnectionCreated, integrationConnection, now, lockIdOf, aux >>

\* A statement of the transaction fails or the 60 s timeout expires: rollback.
TxFail(c) ==
  /\ calls[c].pc \in TxPcs \cup {"startRun"}
  /\ calls' = [calls EXCEPT ![c] = Finish(c, "rollback")]
  /\ UNCHANGED << store, integrationConnection, now, lockIdOf, aux >>

Next ==
  \/ \E c \in Calls, id \in RunIds : Call(c, id)
  \/ \E c \in Calls : CreateRunConnections(c)
  \/ \E c \in Calls : HandleMissingFind(c)
  \/ \E c \in Calls : HandleMissingUpdate(c)
  \/ \E c \in Calls : HandleMissingConflict(c)
  \/ \E c \in Calls : TxLock(c)
  \/ \E c \in Calls : TxUpsert(c)
  \/ \E c \in Calls : TxUpdate(c)
  \/ \E c \in Calls : TxEnqueue(c)
  \/ \E c \in Calls : TxCommit(c)
  \/ \E c \in Calls : TxFail(c)
  \/ \E conn \in ConnectionUniverse : CreateConnection(conn)

Spec == Init /\ [][Next]_vars

\* Every call that can take its next step eventually takes it: the workers keep
\* running and the database answers.  Nothing forces new calls, new connections
\* or failures to happen.
Fairness ==
  \A c \in Calls :
    /\ WF_vars(CreateRunConnections(c))
    /\ WF_vars(HandleMissingFind(c))
    /\ WF_vars(HandleMissingUpdate(c) \/ HandleMissingConflict(c))
    /\ WF_vars(TxLock(c))
    /\ WF_vars(TxUpsert(c))
    /\ WF_vars(TxUpdate(c))
    /\ WF_vars(TxEnqueue(c))
    /\ WF_vars(TxCommit(c))

\* The connections that exist when the calls of the fair specification start.
FairConnections ==
  { {}, {cn \in ConnectionUniverse : cn.connectionType = "DEVELOPER"} }

FairInit ==
  /\ InitStore
  /\ InitClock
  /\ integrationConnection \in FairConnections

\* The pipeline alone: no connection is created while the calls run.
FairNext ==
  \/ \E c \in Calls, id \in RunIds : Call(c, id)
  \/ \E c \in Calls : CreateRunConnections(c)
  \/ \E c \in Calls : HandleMissingFind(c)
  \/ \E c \in Calls : HandleMissingUpdate(c)
  \/ \E c \in Calls : HandleMissingConflict(c)
  \/ \E c \in Calls : TxLock(c)
  \/ \E c \in Calls : TxUpsert(c)
  \/ \E c \in Calls : TxUpdate(c)
  \/ \E c \in Calls : TxEnqueue(c)
  \/ \E c \in Calls : TxCommit(c)
  \/ \E c \in Calls : TxFail(c)

FairSpec == FairInit /\ [][FairNext]_vars /\ Fairness

\* ------------------------------------------------ onError as a specification
\* A task of the Shopify integration threw error at time now; the pipeline is idle.
ErrInit ==
  /\ InitStore
  /\ integrationConnection = {}
  /\ now \in 0..MaxNow
  /\ error \in Errors
  /\ result = NotCalled

\* The SDK calls onError(error) once for the thrown error.
OnError ==
  /\ ~result.called
  /\ result' = onError(error, now)
  /\ UNCHANGED << store, integrationConnection, calls, now, lockIdOf, overlapped, error >>

ErrNext == OnError

ErrSpec == ErrInit /\ [][ErrNext]_vars

\* ================================================================ claims
\* The calls that have been issued on run r.
CallsOn(r) == {c \in Calls : calls[c].pc # "idle" /\ calls[c].id = r}

CallsOnJob(j) == {c \in Calls : calls[c].pc # "idle" /\ calls[c].id \in RunsOfJob(j)}

Finished(c) == calls[c].pc = "done"

\* C1: when the activate calls issued on the runs of a job were issued on
\* distinct runs and all of them completed the queue transition, the sequence
\* numbers of those runs are exactly 1..N, N the number of calls.
C1_SequenceNumbersExact ==
  \A j \in Jobs :
    LET cs == CallsOnJob(j)
    IN  ( /\ \A c \in cs : Finished(c) /\ calls[c].outcome = "queued"
          /\ \A c, d \in cs : c # d => calls[c].id # calls[d].id )
        => {jobRun[calls[c].id].number : c \in cs} = 1..Cardinality(cs)

C1_Witness ==
  \E j \in Jobs :
    LET cs == CallsOnJob(j)
    IN  /\ Cardinality(cs) >= 2
        /\ \A c \in cs : Finished(c) /\ calls[c].outcome = "queued"
        /\ \A c, d \in cs : c # d => calls[c].id # calls[d].id

\* C2: once a run's status is QUEUED no step sets it to another status.
C2_NeverRegress ==
  [][\A r \in Runs : jobRun[r].status = "QUEUED" => jobRun'[r].status = "QUEUED"]_vars

\* C3: whatever calls are issued on a run, it is handed to dispatch at most
\* once and the counter of its job advanced at most once per run.
C3_AtMostOnce ==
  /\ \A r \in Runs : resumeRun[r] <= 1
  /\ \A j \in Jobs :
       jobCounter[j] <= Cardinality({r \in RunsOfJob(j) : jobRun[r].number # 0})

\* C4: when a queue transition was rolled back and no call on the run has
\* committed one, the run shows nothing of it: status not QUEUED, no number,
\* no queued-at timestamp, no binding; a job none of whose calls committed
\* has no counter value.
C4_NoPartialState ==
  /\ \A r \in Runs :
       ( /\ \E c \in CallsOn(r) : calls[c].outcome = "rollback"
         /\ \A c \in CallsOn(r) : Finished(c) /\ calls[c].outcome # "queued" )
       => /\ jobRun[r].status \in {"PENDING", "WAITING_ON_CONNECTIONS"}
          /\ jobRun[r].number = 0
          /\ jobRun[r].queuedAt = 0
          /\ runConnections[r] = << >>
  /\ \A j \in Jobs :
       (\A c \in CallsOnJob(j) : Finished(c) /\ calls[c].outcome # "queued")
       => jobCounter[j] = 0

\* C5: a run whose status is QUEUED has a committed dispatch job.
C5_QueuedImpliesDispatched ==
  \A r \in Runs : jobRun[r].status = "QUEUED" => resumeRun[r] >= 1
\* The runs linked to MissingConnection m.
RunsLinked(links, m) == {l[1] : l \in {x \in links : x[2] = m}}

\* C6: an activate call that found the run already WAITING_ON_CONNECTIONS and
\* parks it again emits no notification for a MissingConnection that was and
\* stays linked to this run only and was already notified.
C6_NoSecondNotification ==
  [][\A c \in Calls :
       ( /\ calls[c].pc = "connectOrCreate"
         /\ calls[c].seen = "WAITING_ON_CONNECTIONS"
         /\ calls'[c].outcome = "waiting" )
       => \A m \in DOMAIN missingConnectionCreated :
            ( /\ RunsLinked(runMissing, m) = {calls[c].id}
              /\ RunsLinked(runMissing', m) = {calls[c].id}
              /\ missingConnectionCreated[m] >= 1 )
            => missingConnectionCreated'[m] = missingConnectionCreated[m]]_vars

\* The key of the MissingConnection for the DEVELOPER connection of integration iH.
DeveloperKey ==
  [integrationId |-> "iH", connectionType |-> "DEVELOPER", accountIdentifier |-> "DEVELOPER"]

\* C7: when two runs of one job without external account were each activated
\* once, both calls found the DEVELOPER connection missing and both calls
\* are over, there is one MissingConnection row for it, one notification,
\* and both runs are WAITING_ON_CONNECTIONS.
C7_ConcurrentMissing ==
  \A c, d \in Calls :
    LET r == calls[c].id
        q == calls[d].id
    IN  ( /\ c # d /\ Finished(c) /\ Finished(d)
          /\ r \in Runs /\ q \in Runs /\ r # q
          /\ RunDef[r].jobId = RunDef[q].jobId
          /\ RunDef[r].externalAccountId = NULL /\ RunDef[q].externalAccountId = NULL
          /\ CallsOn(r) = {c} /\ CallsOn(q) = {d}
          /\ calls[c].outcome \in {"waiting", "conflict"}
          /\ calls[d].outcome \in {"waiting", "conflict"} )
        => /\ Cardinality(rowsWithKey(missingConnection, DeveloperKey)) = 1
           /\ \A mc \in rowsWithKey(missingConnection, DeveloperKey) :
                missingConnectionCreated[mc.id] = 1
           /\ jobRun[r].status = "WAITING_ON_CONNECTIONS"
           /\ jobRun[q].status = "WAITING_ON_CONNECTIONS"

\* C8: a call that found a requirement missing ends with the run in
\* WAITING_ON_CONNECTIONS, and none of its steps changes the job counter, the
\* run's number or queued-at timestamp, the bindings or the dispatch queue.
C8_MissingNoQueueEffect ==
  [][\A c \in Calls :
       calls[c].pc \in {"handleMissingConnections", "connectOrCreate"} /\ calls'[c] # calls[c]
       => /\ UNCHANGED << jobCounter, runConnections, resumeRun >>
          /\ \A r \in Runs : /\ jobRun'[r].number = jobRun[r].number
                             /\ jobRun'[r].queuedAt = jobRun[r].queuedAt
          /\ Finished(c)' => jobRun'[calls[c].id].status = "WAITING_ON_CONNECTIONS"]_vars

\* C9: an activate call on an absent run or on a run whose status is neither
\* PENDING nor WAITING_ON_CONNECTIONS returns at once without error and
\* changes nothing in the store; a call that returned takes no further step.
C9_NotStartableNoop ==
  [][\A c \in Calls :
       /\ ( /\ calls[c].pc = "idle" /\ calls'[c].pc # "idle"
            /\ \/ calls'[c].id \notin Runs
               \/ jobRun[calls'[c].id].status \notin {"PENDING", "WAITING_ON_CONNECTIONS"} )
          => /\ Finished(c)' /\ calls'[c].outcome = "noop"
             /\ UNCHANGED << store, integrationConnection >>
       /\ Finished(c) => calls'[c] = calls[c]]_vars

C9_Witness ==
  /\ \E c \in Calls : /\ calls[c].outcome = "noop" /\ calls[c].id \in Runs
                      /\ jobRun[calls[c].id].status = "QUEUED"
                      /\ resumeRun[calls[c].id] = 1

\* Runs created PENDING whose version has only LOCAL and RESOLVER requirements.
LocalOnlyRuns ==
  {r \in Runs : /\ RunDef[r].status = "PENDING"
                /\ \A n \in 1..Len(versionIntegrations[RunDef[r].version]) :
                     authSource[versionIntegrations[RunDef[r].version][n].integration]
                       \in {"LOCAL", "RESOLVER"}}

\* C10: a run created PENDING with only LOCAL and RESOLVER requirements is
\* never WAITING_ON_CONNECTIONS and never linked to a MissingConnection, no
\* call on it creates one, and once a call on it has returned without error
\* it is QUEUED with a sequence number.
C10_LocalOnlyQueued ==
  /\ [](\A r \in LocalOnlyRuns :
          /\ jobRun[r].status # "WAITING_ON_CONNECTIONS"
          /\ \A l \in runMissing : l[1] # r
          /\ (\E c \in CallsOn(r) : Finished(c) /\ calls[c].outcome \in {"queued", "noop"})
             => jobRun[r].status = "QUEUED" /\ jobRun[r].number >= 1)
  /\ [][\A c \in Calls :
          calls'[c] # calls[c] /\ calls'[c].id \in LocalOnlyRuns
          => UNCHANGED << missingConnection, runMissing, missingConnectionCreated >>]_vars

C10_Witness ==
  /\ \E c \in Calls : /\ calls[c].id = "r3" /\ calls[c].outcome = "queued"
                      /\ jobRun["r3"].status = "QUEUED" /\ jobRun["r3"].number >= 1
  /\ \E c \in Calls : /\ calls[c].id = "r5" /\ calls[c].outcome = "queued"
                      /\ jobRun["r5"].status = "QUEUED"
\* Runs without external account whose version has a HOSTED requirement.
DevHostedRuns ==
  {r \in Runs : /\ RunDef[r].externalAccountId = NULL
                /\ \E n \in 1..Len(versionIntegrations[RunDef[r].version]) :
                     authSource[versionIntegrations[RunDef[r].version][n].integration] = "HOSTED"}

\* The committed DEVELOPER connections of an integration.
DeveloperConnections(integ) ==
  {cn \in integrationConnection : cn.integrationId = integ /\ cn.connectionType = "DEVELOPER"}

\* C11: a HOSTED requirement of a run without external account that is looked
\* up while a DEVELOPER connection of its integration exists is classified
\* resolvedHosted (nothing is cached from the parked attempt); and when the
\* activate calls on such a run did not overlap, the run was parked and a later
\* call committed the queue transition, the run is QUEUED with a number, which
\* is 1 when no other run of its job has one.
C11_ParkedThenQueued ==
  /\ [](\A r \in DevHostedRuns :
          ( /\ r \notin overlapped
            /\ \E c \in CallsOn(r) : Finished(c) /\ calls[c].outcome = "waiting"
            /\ \E c \in CallsOn(r) : Finished(c) /\ calls[c].outcome = "queued" )
          => /\ jobRun[r].status = "QUEUED"
             /\ jobRun[r].number >= 1
             /\ (\A q \in RunsOfJob(RunDef[r].jobId) \ {r} : jobRun[q].number = 0)
                => jobRun[r].number = 1)
  /\ [][\A c \in Calls :
          ( /\ calls[c].pc = "createRunConnections"
            /\ calls'[c] # calls[c]
            /\ calls[c].id \in DevHostedRuns )
          => LET ji == versionIntegrations[RunDef[calls[c].id].version][calls[c].i]
             IN  ( /\ authSource[ji.integration] = "HOSTED"
                   /\ DeveloperConnections(ji.integration) # {} )
                 => /\ calls'[c].acc[ji.key].result = "resolvedHosted"
                    /\ calls'[c].pc # "handleMissingConnections"]_vars

C11_Witness ==
  /\ "r1" \notin overlapped
  /\ \E c \in CallsOn("r1") : calls[c].outcome = "waiting"
  /\ \E c \in CallsOn("r1") : calls[c].outcome = "queued"
  /\ jobRun["r1"].status = "QUEUED" /\ jobRun["r1"].number = 1
  /\ \E l \in runMissing : l[1] = "r1"
\* C12: a call that is requesting its job's lock never finds it held by the
\* open transaction of a call on a run of another job: two jobs with calls in
\* their queue transition never have the same lock key.
C12_NoCrossJobWait ==
  \A c, d \in Calls :
    ( /\ calls[c].pc = "startRun"
      /\ calls[d].pc \in TxPcs
      /\ RunDef[calls[c].id].jobId # RunDef[calls[d].id].jobId )
    => jobIdToLockId(RunDef[calls[c].id].jobId) # jobIdToLockId(RunDef[calls[d].id].jobId)
Outcomes == {"resolvedHosted", "resolvedLocal", "resolvedResolver", "missing"}

\* The committed connections a run may use for an integration: the EXTERNAL
\* one of exactly its account, or a DEVELOPER one when it has no account.
Eligible(integ, ext) ==
  IF ext # NULL
  THEN {cn \in integrationConnection : /\ cn.integrationId = integ
                                       /\ cn.connectionType = "EXTERNAL"
                                       /\ cn.externalAccountId = ext}
  ELSE {cn \in integrationConnection : /\ cn.integrationId = integ
                                       /\ cn.connectionType = "DEVELOPER"}

KeysOf(version) == {versionIntegrations[version][n].key : n \in 1..Len(versionIntegrations[version])}

\* C13: each step of the resolver gives the next requirement key exactly one
\* of the four outcomes and leaves the other keys alone: LOCAL and RESOLVER
\* integrations resolve as such; a HOSTED one resolves to a connection only
\* of the EXTERNAL type with the run's exact account when the run has an
\* account, only of the DEVELOPER type when it has none, and is otherwise
\* missing with that type and account; a call that left the resolver has an
\* outcome for every key of the version.
C13_ResolverOutcomes ==
  /\ [][\A c \in Calls :
          calls[c].pc = "createRunConnections" /\ calls'[c] # calls[c]
          => LET run == RunDef[calls[c].id]
                 ji  == versionIntegrations[run.version][calls[c].i]
                 ext == run.externalAccountId
                 rc  == calls'[c].acc[ji.key]
             IN  /\ DOMAIN calls'[c].acc = DOMAIN calls[c].acc \cup {ji.key}
                 /\ \A k \in DOMAIN calls[c].acc \ {ji.key} : calls'[c].acc[k] = calls[c].acc[k]
                 /\ rc.result \in Outcomes
                 /\ rc.integration = ji.integration
                 /\ authSource[ji.integration] = "LOCAL" => rc.result = "resolvedLocal"
                 /\ authSource[ji.integration] = "RESOLVER" => rc.result = "resolvedResolver"
                 /\ authSource[ji.integration] = "HOSTED" =>
                      IF Eligible(ji.integration, ext) # {}
                      THEN /\ rc.result = "resolvedHosted"
                           /\ rc.connection \in {cn.id : cn \in Eligible(ji.integration, ext)}
                      ELSE /\ rc.result = "missing"
                           /\ rc.connectionType = (IF ext # NULL THEN "EXTERNAL" ELSE "DEVELOPER")
                           /\ rc.externalAccountId = ext]_vars
  /\ [](\A c \in Calls :
          calls[c].pc \in {"handleMissingConnections", "connectOrCreate", "startRun"} \cup TxPcs
          => DOMAIN calls[c].acc = KeysOf(RunDef[calls[c].id].version))

\* A run with account acct1 is found missing an EXTERNAL connection while a
\* DEVELOPER connection and the EXTERNAL connection of another account exist.
C13_Witness ==
  \E c \in Calls :
    /\ calls[c].id = "r4" /\ calls[c].pc = "handleMissingConnections"
    /\ calls[c].acc["kH"].result = "missing"
    /\ calls[c].acc["kH"].connectionType = "EXTERNAL"
    /\ calls[c].acc["kH"].externalAccountId = "acct1"
    /\ {cn.id : cn \in integrationConnection} = {"cDev", "cExt2"}
\* C14: numbers follow the order in which the activations took the job's lock.
\* A call writes its run's number while it holds the lock, so every other run
\* of the job that already has a number got it from an activation that held
\* the lock earlier, committed or aborted: that number is strictly smaller
\* than the one the call writes.
C14_LockOrder ==
  [][\A c \in Calls :
       calls[c].pc = "update" /\ calls'[c].pc = "enqueue"
       => \A q \in RunsOfJob(RunDef[calls[c].id].jobId) \ {calls[c].id} :
            jobRun[q].number # 0 => jobRun[q].number < jobRun'[calls[c].id].number]_vars
\* C15 as stated: under fair scheduling every call that requests the lock
\* eventually acquires it, and every call eventually terminates.
C15_LockAlwaysAcquired ==
  \A c \in Calls :
    /\ (calls[c].pc = "startRun") ~> (calls[c].pc = "upsert")
    /\ (calls[c].pc \notin {"idle", "done"}) ~> Finished(c)

\* C15 amended: the lock is held by at most one open transaction per key; under
\* fair scheduling every call that requests the lock eventually acquires it
\* unless its own transaction fails or times out first, and every call
\* eventually terminates.
C15_LockReleased ==
  /\ [](\A c, d \in Calls :
          ( /\ c # d /\ calls[c].pc \in TxPcs /\ calls[d].pc \in TxPcs )
          => jobIdToLockId(RunDef[calls[c].id].jobId) # jobIdToLockId(RunDef[calls[d].id].jobId))
  /\ \A c \in Calls :
       /\ (calls[c].pc = "startRun") ~> (calls[c].pc = "upsert" \/ calls[c].outcome = "rollback")
       /\ (calls[c].pc \notin {"idle", "done"}) ~> Finished(c)

\* A call committed under a lock key that a rolled-back transaction, which had
\* already updated its run, held before or after it.
C15_Witness ==
  \E c, d \in Calls :
    /\ c # d
    /\ calls[d].outcome = "rollback" /\ jobRun[calls[d].id].status = "QUEUED"
    /\ calls[c].outcome = "queued" /\ calls[c].id # calls[d].id
    /\ jobIdToLockId(RunDef[calls[c].id].jobId) = jobIdToLockId(RunDef[calls[d].id].jobId)
\* The RunConnection rows of run r for requirement key k.
BindingsFor(r, k) == {n \in 1..Len(runConnections[r]) : runConnections[r][n].key = k}

\* C16: a QUEUED run whose activate calls did not overlap has exactly one
\* binding per requirement key of its version and no other binding; the binding
\* carries the integration and its authSource as tag, the identity of a
\* connection the run may use when the tag is HOSTED, and no connection
\* otherwise.
C16_OneBindingPerKey ==
  \A r \in Runs :
    (jobRun[r].status = "QUEUED" /\ r \notin overlapped)
    => LET reqs == versionIntegrations[RunDef[r].version]
       IN  /\ Len(runConnections[r]) = Len(reqs)
           /\ \A i \in 1..Len(reqs) :
                /\ Cardinality(BindingsFor(r, reqs[i].key)) = 1
                /\ \A n \in BindingsFor(r, reqs[i].key) :
                     LET b == runConnections[r][n]
                     IN  /\ b.integrationId = reqs[i].integration
                         /\ b.authSource = authSource[reqs[i].integration]
                         /\ IF b.authSource = "HOSTED"
                            THEN b.connectionId \in
                                   {cn.id : cn \in Eligible(reqs[i].integration,
                                                            RunDef[r].externalAccountId)}
                            ELSE b.connectionId = NULL

C16_Witness ==
  /\ jobRun["r2"].status = "QUEUED" /\ "r2" \notin overlapped
  /\ Len(runConnections["r2"]) = 3
  /\ \E n \in 1..3 : /\ runConnections["r2"][n].key = "kH"
                     /\ runConnections["r2"][n].connectionId = "cDev"
  /\ \E c \in CallsOn("r2") : calls[c].outcome = "noop"
\* The account identifier of the MissingConnection a run waits on.
AccountIdentifierOf(r) ==
  IF RunDef[r].externalAccountId # NULL THEN RunDef[r].externalAccountId ELSE "DEVELOPER"

\* C17: after every step no two MissingConnection rows agree on (integration,
\* connection type, account identifier), and a call that parks a run leaves the
\* run linked to the single row of every credential it found missing, whose
\* account identifier is the run's external account or "DEVELOPER".
C17_OneMissingPerKey ==
  [][ /\ \A a, b \in missingConnection' : rowKey(a) = rowKey(b) => a = b
      /\ \A c \in Calls :
           (calls[c].pc = "connectOrCreate" /\ calls'[c].outcome = "waiting")
           => \A k \in missingKeys(calls[c].acc) :
                /\ k.accountIdentifier = AccountIdentifierOf(calls[c].id)
                /\ \E mc \in missingConnection' :
                     /\ rowsWithKey(missingConnection', k) = {mc}
                     /\ << calls[c].id, mc.id >> \in runMissing'
    ]_vars

C17_Witness ==
  /\ calls[1].outcome = "waiting" /\ calls[2].outcome = "waiting"
  /\ calls[1].id # calls[2].id
  /\ \E mc \in missingConnection :
       /\ rowsWithKey(missingConnection, rowKey(mc)) = {mc}
       /\ RunsLinked(runMissing, mc.id) = {calls[1].id, calls[2].id}
\* C18: a run has a sequence number and a queued-at timestamp if and only if
\* its status is QUEUED; a PENDING or WAITING_ON_CONNECTIONS run has neither.
C18_NumberIffQueued ==
  \A r \in Runs :
    /\ (jobRun[r].number # 0 /\ jobRun[r].queuedAt # 0) <=> jobRun[r].status = "QUEUED"
    /\ jobRun[r].status \in {"PENDING", "WAITING_ON_CONNECTIONS"}
       => jobRun[r].number = 0 /\ jobRun[r].queuedAt = 0
\* A step of the queue transition of call c: #startRun up to commit or rollback.
QueueTransitionStep(c) ==
  calls[c].pc \in {"startRun"} \cup TxPcs /\ calls'[c] # calls[c]

C20_OnErrorDecision ==
  result.called =>
    LET noDirective == ~result.skipRetrying /\ ~result.hasRetryAt
        v == error.retryAfter
    IN  /\ error.class = "Error" => noDirective
        /\ error.class \in {"ShopifyError", "HttpResponseError"}
           => result.skipRetrying /\ ~result.hasRetryAt
        /\ error.class \in {"HttpRetriableError", "HttpInternalError"} => noDirective
        /\ error.class = "HttpThrottlingError"
           => /\ ~result.skipRetrying
              /\ result.hasRetryAt <=> (v # Undefined /\ v # NaN /\ v # Num(0))
              /\ result.hasRetryAt => result.retryAt = now + v.n * SecondMs
        /\ ~(result.skipRetrying /\ result.hasRetryAt)

C20_Witness ==
  /\ result.called
  /\ error = [class |-> "HttpThrottlingError", retryAfter |-> Num(2)]
  /\ result.hasRetryAt /\ result.retryAt = now + 2 * SecondMs
  /\ ~result.skipRetrying
====
